---- MODULE Spec2Model ----
(***************************************************************************)
(* FROST distributed key generation (crypto/frost/src/key_gen.rs): the    *)
(* round functions generate_key_r1, verify_r1, polynomial,                 *)
(* generate_key_r2, complete_r2 and the StateMachine that drives them.     *)
(*                                                                         *)
(* The curve is a toy prime-order group: the subgroup of order Q of the    *)
(* multiplicative group modulo Modulus, written additively as the code     *)
(* does (point addition is multiplication modulo Modulus, scalar           *)
(* multiplication is exponentiation).  Scalars are the integers modulo Q.  *)
(* One encoded scalar or point is one byte.                                *)
(***************************************************************************)
EXTENDS Integers, Sequences, FiniteSets, TLC

----------------------------------------------------------------------------
(* Bounds of the model *)

\* participants: 1 <= t <= n <= MaxN
MaxN == 3
\* the seeds of the rngs handed to the machines: 0 .. MaxSeed
MaxSeed == 2

----------------------------------------------------------------------------
(* Curve: the capability bundle of spec 4.1 *)

\* order of the group and of the scalar field F
Q == 5
\* the group is the order-Q subgroup of the units modulo Modulus
Modulus == 11
\* encoded length of a point and of a scalar, in bytes
G_len == 1
F_len == 1
\* largest value of one byte of the model
ByteMax == 11

F == 0 .. (Q - 1)
Byte == 0 .. ByteMax

FAdd(a, b) == (a + b) % Q
FMul(a, b) == (a * b) % Q
FNeg(a) == (Q - a) % Q
FSub(a, b) == FAdd(a, FNeg(b))

\* a^(Q-2): the inverse of a nonzero scalar
RECURSIVE FPow(_, _)
FPow(a, e) == IF e = 0 THEN 1 ELSE FMul(a, FPow(a, e - 1))
FInv(a) == FPow(a, Q - 2)

\* F::from(u64): an integer as a scalar
FFrom(x) == x % Q

\* C::G::identity()
identity == 1
\* C::generator()
generator == 3

\* point addition
GAdd(p1, p2) == (p1 * p2) % Modulus

\* scalar multiplication point * scalar
GMul(p, s) == (p ^ s) % Modulus

\* C::generator_table() * s
generator_table(s) == GMul(generator, s)

\* the elements of the group
Points == { generator_table(s) : s \in F }

\* C::multiexp_vartime(scalars, points): the sum of scalars[k] * points[k]
RECURSIVE multiexp_vartime(_, _)
multiexp_vartime(scalars, points) ==
  IF scalars = << >> THEN identity
  ELSE GAdd(GMul(Head(points), Head(scalars)),
            multiexp_vartime(Tail(scalars), Tail(points)))

\* a decoding failure of F_from_slice / G_from_slice
DecodeError == ByteMax + 1

G_to_bytes(p) == << p >>
G_from_slice(b) ==
  IF Len(b) = G_len /\ b[1] \in Points THEN b[1] ELSE DecodeError

F_to_bytes(s) == << s >>
F_from_slice(b) ==
  IF Len(b) = F_len /\ b[1] \in F THEN b[1] ELSE DecodeError

\* C::hash_to_F: a fixed function of the whole byte string.  Every byte counts
\* with a weight that depends on its position.  The digest is never 0, which a
\* random oracle yields with negligible probability only.
HashByte(b) == IF b <= 1 THEN b ELSE 2 + (b % 2)
RECURSIVE HashMix(_)
HashMix(bytes) ==
  IF bytes = << >> THEN 0
  ELSE (HashByte(Head(bytes)) + 3 * HashMix(Tail(bytes))) % (Q - 1)
hash_to_F(bytes) == 1 + HashMix(bytes)

----------------------------------------------------------------------------
(* Values *)

\* Option<T>: None, Some(x)
None == << >>
Some(x) == << x >>
IsSome(o) == o # << >>
Unwrap(o) == o[1]

\* Result<T, FrostError>, and a panic of the call
Ok(v) ==
  [tag |-> "Ok", err |-> "", l |-> 0, expected |-> "", actual |-> "", val |-> << v >>]
Err(kind, l) ==
  [tag |-> "Err", err |-> kind, l |-> l, expected |-> "", actual |-> "", val |-> << >>]
InvalidKeyGenTransition(expected, actual) ==
  [tag |-> "Err", err |-> "InvalidKeyGenTransition", l |-> 0,
   expected |-> expected, actual |-> actual, val |-> << >>]
\* a panic, with what panicked: "unwrap" (Option::unwrap on None), "slice" (a
\* range out of the slice) or "debug_assert"
Panic(what) ==
  [tag |-> "Panic", err |-> what, l |-> 0, expected |-> "", actual |-> "", val |-> << >>]
\* no call made yet
NoCall ==
  [tag |-> "None", err |-> "", l |-> 0, expected |-> "", actual |-> "", val |-> << >>]

IsOk(r) == r.tag = "Ok"
IsErr(r) == r.tag = "Err"
Value(r) == r.val[1]

\* &v[a .. b] of a byte vector: in range or a panic
InRange(v, a, b) == a <= b /\ b <= Len(v)
Slice(v, a, b) == SubSeq(v, a + 1, b)

\* the least element of a nonempty set of integers
Min(S) == CHOOSE x \in S : \A y \in S : x <= y

----------------------------------------------------------------------------
(* Round functions *)

\* l.to_be_bytes() of a u16
to_be_bytes(l) == << l \div 256, l % 256 >>

challenge(l, context, R, Am) ==
  hash_to_F(to_be_bytes(l) \o context \o R \o Am)

\* the serialized commitments G_to_bytes(a_0 * G) || ... of a coefficient vector
RECURSIVE SerializeCommitments(_)
SerializeCommitments(coefficients) ==
  IF coefficients = << >> THEN << >>
  ELSE G_to_bytes(generator_table(Head(coefficients)))
         \o SerializeCommitments(Tail(coefficients))

\* generate_key_r1 adding the digest of the context to the coefficient a_0
generate_key_r1_keyed(params, context, rnd) ==
  LET coefficients == [rnd.coefficients EXCEPT ![1] = FAdd(@, hash_to_F(context))]
      serialized == SerializeCommitments(coefficients)
      r == rnd.r
      R == generator_table(r)
      s == FAdd(r, FMul(coefficients[1], challenge(params.i, context, G_to_bytes(R), serialized)))
  IN  << coefficients, serialized \o G_to_bytes(R) \o F_to_bytes(s) >>

\* rnd: the values rng yields, [coefficients: t scalars, r: the nonce]
generate_key_r1(params, context, rnd) ==
  LET coefficients == rnd.coefficients
      serialized == SerializeCommitments(coefficients)
      r == rnd.r
      R == generator_table(r)
      s == FAdd(r, FMul(coefficients[1], challenge(params.i, context, G_to_bytes(R), serialized)))
  IN  << coefficients, serialized \o G_to_bytes(R) \o F_to_bytes(s) >>

\* validate_map(&mut map, included, ours): inserts the local entry and requires
\* the keys to be exactly the included indexes
validate_map(map, included, ours) ==
  LET inserted == [k \in (DOMAIN map) \cup {ours[1]} |->
                     IF k = ours[1] THEN ours[2] ELSE map[k]]
  IN  IF ours[1] \in DOMAIN map THEN Err("DuplicatedIndex", ours[1])
      ELSE IF included \ (DOMAIN inserted) # {}
        THEN Err("MissingParticipant", Min(included \ (DOMAIN inserted)))
      ELSE IF (DOMAIN inserted) \ included # {}
        THEN Err("DuplicatedIndex", Min((DOMAIN inserted) \ included))
      ELSE Ok(inserted)

\* the loop of lines 96-102: the commitments c .. t-1 of one message, after acc
RECURSIVE ParseCommitments(_, _, _, _, _)
ParseCommitments(msg, l, c, t, acc) ==
  IF c = t THEN Ok(acc)
  ELSE IF ~InRange(msg, c * G_len, (c + 1) * G_len) THEN Panic("slice")
  ELSE LET A == G_from_slice(Slice(msg, c * G_len, (c + 1) * G_len))
       IN  IF A = DecodeError THEN Err("InvalidCommitment", l)
           ELSE ParseCommitments(msg, l, c + 1, t, Append(acc, A))

\* the closures R_bytes, R, Am and s of lines 81-89, for one message
R_bytes(msg, commitments_len) == Slice(msg, commitments_len, commitments_len + G_len)
Am(msg, commitments_len) == Slice(msg, 0, commitments_len)
s_bytes(msg, commitments_len) == Slice(msg, commitments_len + G_len, Len(msg))

\* one iteration of the loop of lines 94-128 up to the two `?`: the commitments
\* of l, and for a peer its R and s
ParseMessage(params, msg, l) ==
  LET commitments_len == params.t * G_len
      cs == ParseCommitments(msg, l, 0, params.t, << >>)
  IN  IF ~IsOk(cs) THEN cs
      ELSE IF l = params.i THEN Ok([commitments |-> Value(cs), R |-> identity, s |-> 0])
      ELSE IF ~InRange(msg, commitments_len, commitments_len + G_len) THEN Panic("slice")
      ELSE IF G_from_slice(R_bytes(msg, commitments_len)) = DecodeError
        THEN Err("InvalidProofOfKnowledge", l)
      ELSE IF ~InRange(msg, commitments_len + G_len, Len(msg)) THEN Panic("slice")
      ELSE IF F_from_slice(s_bytes(msg, commitments_len)) = DecodeError
        THEN Err("InvalidProofOfKnowledge", l)
      ELSE Ok([commitments |-> Value(cs),
               R |-> G_from_slice(R_bytes(msg, commitments_len)),
               s |-> F_from_slice(s_bytes(msg, commitments_len))])

\* the lowest peer index: the one iteration that runs with first = true
FirstPeer(params) == Min((1 .. params.n) \ {params.i})

\* s_l * G == R_l + c_l * A_{l,0}, the check of lines 142-144
ProofHolds(params, context, msg, parsed, l) ==
  LET commitments_len == params.t * G_len
      c == challenge(l, context, R_bytes(msg, commitments_len), Am(msg, commitments_len))
  IN  generator_table(parsed.s) = GAdd(parsed.R, GMul(parsed.commitments[1], c))

\* BatchTerms pushing the challenge c without the blinding factor
RECURSIVE BatchTerms_unblinded_c(_, _, _, _, _, _)
BatchTerms_unblinded_c(params, context, serialized, parsed, us, l) ==
  IF l > params.n THEN [scalars |-> << >>, points |-> << >>]
  ELSE LET rest == BatchTerms_unblinded_c(params, context, serialized, parsed, us, l + 1)
       IN  IF l = params.i THEN rest
           ELSE LET commitments_len == params.t * G_len
                    first == (l = FirstPeer(params))
                    u == IF first THEN 1 ELSE us[l]
                    c == challenge(l, context, R_bytes(serialized[l], commitments_len),
                                   Am(serialized[l], commitments_len))
                IN  [scalars |-> << u, FMul(FNeg(parsed[l].s), u), c >> \o rest.scalars,
                     points |-> << parsed[l].R, generator, parsed[l].commitments[1] >>
                                  \o rest.points]

\* BatchTerms pushing s * u instead of -s * u
RECURSIVE BatchTerms_unnegated_s(_, _, _, _, _, _)
BatchTerms_unnegated_s(params, context, serialized, parsed, us, l) ==
  IF l > params.n THEN [scalars |-> << >>, points |-> << >>]
  ELSE LET rest == BatchTerms_unnegated_s(params, context, serialized, parsed, us, l + 1)
       IN  IF l = params.i THEN rest
           ELSE LET commitments_len == params.t * G_len
                    first == (l = FirstPeer(params))
                    u == IF first THEN 1 ELSE us[l]
                    c == challenge(l, context, R_bytes(serialized[l], commitments_len),
                                   Am(serialized[l], commitments_len))
                IN  [scalars |-> << u, FMul(parsed[l].s, u),
                                    IF first THEN c ELSE FMul(c, u) >> \o rest.scalars,
                     points |-> << parsed[l].R, generator, parsed[l].commitments[1] >>
                                  \o rest.points]

\* scalars and points pushed by the iterations l .. n (lines 110-127);
\* us[l] is the value rng yields for the blinding factor of peer l
RECURSIVE BatchTerms(_, _, _, _, _, _)
BatchTerms(params, context, serialized, parsed, us, l) ==
  IF l > params.n THEN [scalars |-> << >>, points |-> << >>]
  ELSE LET rest == BatchTerms(params, context, serialized, parsed, us, l + 1)
       IN  IF l = params.i THEN rest
           ELSE LET commitments_len == params.t * G_len
                    first == (l = FirstPeer(params))
                    u == IF first THEN 1 ELSE us[l]
                    c == challenge(l, context, R_bytes(serialized[l], commitments_len),
                                   Am(serialized[l], commitments_len))
                IN  [scalars |-> << u, FMul(FNeg(parsed[l].s), u),
                                    IF first THEN c ELSE FMul(c, u) >> \o rest.scalars,
                     points |-> << parsed[l].R, generator, parsed[l].commitments[1] >>
                                  \o rest.points]

\* verify_r1 asking validate_map for the indexes 1 .. n + 1
verify_r1_one_more(us, params, context, our_commitments, serialized_in) ==
  LET validated == validate_map(serialized_in, 1 .. params.n + 1, << params.i, our_commitments >>)
  IN  IF ~IsOk(validated) THEN validated
      ELSE
        LET serialized == Value(validated)
            outcome == [l \in 1 .. params.n |-> ParseMessage(params, serialized[l], l)]
            bad == { l \in 1 .. params.n : ~IsOk(outcome[l]) }
        IN  IF bad # {} THEN outcome[Min(bad)]
            ELSE
              LET parsed == [l \in 1 .. params.n |-> Value(outcome[l])]
                  commitments == [l \in 1 .. params.n |-> parsed[l].commitments]
                  terms == BatchTerms(params, context, serialized, parsed, us, 1)
                  failing == { l \in (1 .. params.n) \ {params.i} :
                                 ~ProofHolds(params, context, serialized[l], parsed[l], l) }
              IN  IF multiexp_vartime(terms.scalars, terms.points) # identity
                    THEN IF failing # {}
                           THEN Err("InvalidProofOfKnowledge", Min(failing))
                           ELSE Err("InternalError", 0)
                    ELSE Ok(commitments)

\* verify_r1 blaming the last peer whose proof fails
verify_r1_blaming_last(us, params, context, our_commitments, serialized_in) ==
  LET validated == validate_map(serialized_in, 1 .. params.n, << params.i, our_commitments >>)
  IN  IF ~IsOk(validated) THEN validated
      ELSE
        LET serialized == Value(validated)
            outcome == [l \in 1 .. params.n |-> ParseMessage(params, serialized[l], l)]
            bad == { l \in 1 .. params.n : ~IsOk(outcome[l]) }
        IN  IF bad # {} THEN outcome[Min(bad)]
            ELSE
              LET parsed == [l \in 1 .. params.n |-> Value(outcome[l])]
                  commitments == [l \in 1 .. params.n |-> parsed[l].commitments]
                  terms == BatchTerms(params, context, serialized, parsed, us, 1)
                  failing == { l \in (1 .. params.n) \ {params.i} :
                                 ~ProofHolds(params, context, serialized[l], parsed[l], l) }
              IN  IF multiexp_vartime(terms.scalars, terms.points) # identity
                    THEN IF failing # {}
                           THEN Err("InvalidProofOfKnowledge",
                                    CHOOSE l \in failing : \A k \in failing : k <= l)
                           ELSE Err("InternalError", 0)
                    ELSE Ok(commitments)

\* verify_r1 checking the proof of each message as soon as it is parsed
verify_r1_checking_as_parsed(us, params, context, our_commitments, serialized_in) ==
  LET validated == validate_map(serialized_in, 1 .. params.n, << params.i, our_commitments >>)
  IN  IF ~IsOk(validated) THEN validated
      ELSE
        LET serialized == Value(validated)
            outcome == [l \in 1 .. params.n |-> ParseMessage(params, serialized[l], l)]
            bad == { l \in 1 .. params.n :
                       \/ ~IsOk(outcome[l])
                       \/ /\ l # params.i
                          /\ ~ProofHolds(params, context, serialized[l],
                                         Value(outcome[l]), l) }
        IN  IF bad # {}
              THEN IF ~IsOk(outcome[Min(bad)]) THEN outcome[Min(bad)]
                   ELSE Err("InvalidProofOfKnowledge", Min(bad))
            ELSE Ok([l \in 1 .. params.n |-> Value(outcome[l]).commitments])

verify_r1(us, params, context, our_commitments, serialized_in) ==
  LET validated == validate_map(serialized_in, 1 .. params.n, << params.i, our_commitments >>)
  IN  IF ~IsOk(validated) THEN validated
      ELSE
        LET serialized == Value(validated)
            outcome == [l \in 1 .. params.n |-> ParseMessage(params, serialized[l], l)]
            bad == { l \in 1 .. params.n : ~IsOk(outcome[l]) }
        IN  IF bad # {} THEN outcome[Min(bad)]
            ELSE
              LET parsed == [l \in 1 .. params.n |-> Value(outcome[l])]
                  commitments == [l \in 1 .. params.n |-> parsed[l].commitments]
                  terms == BatchTerms(params, context, serialized, parsed, us, 1)
                  failing == { l \in (1 .. params.n) \ {params.i} :
                                 ~ProofHolds(params, context, serialized[l], parsed[l], l) }
              IN  IF multiexp_vartime(terms.scalars, terms.points) # identity
                    THEN IF failing # {}
                           THEN Err("InvalidProofOfKnowledge", Min(failing))
                           ELSE Err("InternalError", 0)
                    ELSE Ok(commitments)

\* the loop of lines 161-166 from iteration idx on
RECURSIVE PolynomialFrom(_, _, _, _)
PolynomialFrom(coefficients, l, idx, share) ==
  IF idx = Len(coefficients) THEN share
  ELSE LET added == FAdd(share, coefficients[Len(coefficients) - idx])
       IN  PolynomialFrom(coefficients, l, idx + 1,
                          IF idx # Len(coefficients) - 1 THEN FMul(added, l) ELSE added)

\* polynomial taking the coefficients in the order they are stored
polynomial_forward(coefficients, l) ==
  PolynomialFrom([j \in 1 .. Len(coefficients) |->
                    coefficients[Len(coefficients) + 1 - j]], FFrom(l), 0, 0)

polynomial(coefficients, l) == PolynomialFrom(coefficients, FFrom(l), 0, 0)

\* generate_key_r2 putting the participant's own share into the map it returns
generate_key_r2_with_own(us, params, context, coefficients, our_commitments, commitments_in) ==
  LET verified == verify_r1(us, params, context, our_commitments, commitments_in)
  IN  IF ~IsOk(verified) THEN verified
      ELSE Ok([share |-> polynomial(coefficients, params.i),
               commitments |-> Value(verified),
               res |-> [l \in 1 .. params.n |->
                          F_to_bytes(polynomial(coefficients, l))]])

generate_key_r2(us, params, context, coefficients, our_commitments, commitments_in) ==
  LET verified == verify_r1(us, params, context, our_commitments, commitments_in)
  IN  IF ~IsOk(verified) THEN verified
      ELSE Ok([share |-> polynomial(coefficients, params.i),
               commitments |-> Value(verified),
               res |-> [l \in (1 .. params.n) \ {params.i} |->
                          F_to_bytes(polynomial(coefficients, l))]])

\* exps of lines 239-244 and 265-269: 1, x, x^2, ... (count of them)
RECURSIVE Exps(_, _, _)
Exps(x, count, exp) ==
  IF count = 0 THEN << >> ELSE << exp >> \o Exps(x, count - 1, FMul(exp, x))

\* VerificationTerms raising the index i of the committer instead of l
RECURSIVE VerificationTerms_of_committer(_, _, _, _)
VerificationTerms_of_committer(params, commitments, l, i) ==
  IF i > params.n THEN [exps |-> << >>, cs |-> << >>]
  ELSE LET rest == VerificationTerms_of_committer(params, commitments, l, i + 1)
       IN  [exps |-> Exps(FFrom(i), params.t, 1) \o rest.exps,
            cs |-> commitments[i] \o rest.cs]

\* exps and cs of lines 261-272 for the participants i .. n
RECURSIVE VerificationTerms(_, _, _, _)
VerificationTerms(params, commitments, l, i) ==
  IF i > params.n THEN [exps |-> << >>, cs |-> << >>]
  ELSE LET rest == VerificationTerms(params, commitments, l, i + 1)
       IN  [exps |-> Exps(FFrom(l), params.t, 1) \o rest.exps,
            cs |-> commitments[i] \o rest.cs]

\* the sum of a set of scalars, and of a set of points, given per index
RECURSIVE SumF(_, _)
SumF(f, S) ==
  IF S = {} THEN 0 ELSE LET x == Min(S) IN FAdd(f[x], SumF(f, S \ {x}))
RECURSIVE SumG(_, _)
SumG(f, S) ==
  IF S = {} THEN identity ELSE LET x == Min(S) IN GAdd(f[x], SumG(f, S \ {x}))

\* FailingShares raising the index l of the sender instead of params.i
FailingShares_of_sender(params, commitments, shares) ==
  { l \in (1 .. params.n) \ {params.i} :
      multiexp_vartime(Exps(FFrom(l), params.t, 1), commitments[l])
        # generator_table(shares[l]) }

\* lines 233-250: the peers whose share does not match their commitments
FailingShares(params, commitments, shares) ==
  { l \in (1 .. params.n) \ {params.i} :
      multiexp_vartime(Exps(FFrom(params.i), params.t, 1), commitments[l])
        # generator_table(shares[l]) }

\* SecretShare without the participant's own share
SecretShare_of_peers(params, shares) == SumF(shares, (1 .. params.n) \ {params.i})

\* lines 254-257
SecretShare(params, shares) == SumF(shares, 1 .. params.n)

\* lines 259-274
VerificationShares(params, commitments) ==
  [l \in 1 .. params.n |->
     LET terms == VerificationTerms(params, commitments, l, 1)
     IN  multiexp_vartime(terms.exps, terms.cs)]

\* GroupKey without the participant's own commitment
GroupKey_of_peers(params, commitments) ==
  SumG([l \in 1 .. params.n |-> commitments[l][1]], (1 .. params.n) \ {params.i})

\* line 277
GroupKey(params, commitments) ==
  SumG([l \in 1 .. params.n |-> commitments[l][1]], 1 .. params.n)

\* The results complete_r2 can return: the loop of lines 233-250 walks a
\* HashMap, so with several bad shares any of them can be the one reported.
complete_r2(params, share, commitments, serialized_in) ==
  LET validated == validate_map(serialized_in, 1 .. params.n, << params.i, F_to_bytes(share) >>)
  IN  IF ~IsOk(validated) THEN { validated }
      ELSE
        LET serialized == Value(validated)
            shares == [l \in 1 .. params.n |-> F_from_slice(serialized[l])]
        IN  IF \E l \in 1 .. params.n : shares[l] = DecodeError
              THEN { Err("InvalidShare", params.i) }
            ELSE
              LET failing == FailingShares(params, commitments, shares)
                  secret_share == SecretShare(params, shares)
                  verification_shares == VerificationShares(params, commitments)
                  keys == Ok([params |-> params, secret_share |-> secret_share,
                              group_key |-> GroupKey(params, commitments),
                              verification_shares |-> verification_shares,
                              offset |-> None])
              IN  IF failing # {} THEN { Err("InvalidCommitment", l) : l \in failing }
                  \* debug_assert_eq!: a panic in a debug build, nothing in a release one
                  ELSE IF generator_table(secret_share) # verification_shares[params.i]
                    THEN { Panic("debug_assert"), keys }
                  ELSE { keys }

----------------------------------------------------------------------------
(* StateMachine: a machine m is the record of its fields; an operation gives
   the machine after the call and what the call returned *)

new(params, context) ==
  [params |-> params, context |-> context, state |-> "Fresh",
   coefficients |-> None, our_commitments |-> None, secret |-> None, commitments |-> None]

\* generate_coefficients with the states of its error in the wrong order
generate_coefficients_swapped(m, rnd) ==
  IF m.state # "Fresh"
    THEN [m |-> m, ret |-> InvalidKeyGenTransition(m.state, "Fresh")]
  ELSE LET r1 == generate_key_r1(m.params, m.context, rnd)
       IN  [m |-> [m EXCEPT !.coefficients = Some(r1[1]),
                            !.our_commitments = Some(r1[2]),
                            !.state = "GeneratedCoefficients"],
            ret |-> Ok(r1[2])]

\* generate_coefficients without its check of the state
generate_coefficients_unchecked(m, rnd) ==
  LET r1 == generate_key_r1(m.params, m.context, rnd)
  IN  [m |-> [m EXCEPT !.coefficients = Some(r1[1]),
                       !.our_commitments = Some(r1[2]),
                       !.state = "GeneratedCoefficients"],
       ret |-> Ok(r1[2])]

generate_coefficients(m, rnd) ==
  IF m.state # "Fresh"
    THEN [m |-> m, ret |-> InvalidKeyGenTransition("Fresh", m.state)]
  ELSE LET r1 == generate_key_r1(m.params, m.context, rnd)
       IN  [m |-> [m EXCEPT !.coefficients = Some(r1[1]),
                            !.our_commitments = Some(r1[2]),
                            !.state = "GeneratedCoefficients"],
            ret |-> Ok(r1[2])]

\* generate_secret_shares leaving its slots in place when generate_key_r2 fails
generate_secret_shares_retriable(m, us, commitments) ==
  IF m.state # "GeneratedCoefficients"
    THEN [m |-> m, ret |-> InvalidKeyGenTransition("GeneratedCoefficients", m.state)]
  ELSE IF ~IsSome(m.coefficients) THEN [m |-> m, ret |-> Panic("unwrap")]
  ELSE IF ~IsSome(m.our_commitments) THEN [m |-> m, ret |-> Panic("unwrap")]
  ELSE LET r2 == generate_key_r2(us, m.params, m.context, Unwrap(m.coefficients),
                                 Unwrap(m.our_commitments), commitments)
       IN  IF ~IsOk(r2) THEN [m |-> m, ret |-> r2]
           ELSE [m |-> [m EXCEPT !.coefficients = None, !.our_commitments = None,
                                 !.secret = Some(Value(r2).share),
                                 !.commitments = Some(Value(r2).commitments),
                                 !.state = "GeneratedSecretShares"],
                 ret |-> Ok(Value(r2).res)]

\* generate_secret_shares naming Fresh as the state it requires
generate_secret_shares_expecting_fresh(m, us, commitments) ==
  IF m.state # "GeneratedCoefficients"
    THEN [m |-> m, ret |-> InvalidKeyGenTransition("Fresh", m.state)]
  \* self.coefficients.take().unwrap()
  ELSE IF ~IsSome(m.coefficients) THEN [m |-> m, ret |-> Panic("unwrap")]
  \* self.our_commitments.take().unwrap()
  ELSE IF ~IsSome(m.our_commitments)
    THEN [m |-> [m EXCEPT !.coefficients = None], ret |-> Panic("unwrap")]
  ELSE LET taken == [m EXCEPT !.coefficients = None, !.our_commitments = None]
           r2 == generate_key_r2(us, m.params, m.context, Unwrap(m.coefficients),
                                 Unwrap(m.our_commitments), commitments)
       IN  IF ~IsOk(r2) THEN [m |-> taken, ret |-> r2]
           ELSE [m |-> [taken EXCEPT !.secret = Some(Value(r2).share),
                                     !.commitments = Some(Value(r2).commitments),
                                     !.state = "GeneratedSecretShares"],
                 ret |-> Ok(Value(r2).res)]

generate_secret_shares(m, us, commitments) ==
  IF m.state # "GeneratedCoefficients"
    THEN [m |-> m, ret |-> InvalidKeyGenTransition("GeneratedCoefficients", m.state)]
  \* self.coefficients.take().unwrap()
  ELSE IF ~IsSome(m.coefficients) THEN [m |-> m, ret |-> Panic("unwrap")]
  \* self.our_commitments.take().unwrap()
  ELSE IF ~IsSome(m.our_commitments)
    THEN [m |-> [m EXCEPT !.coefficients = None], ret |-> Panic("unwrap")]
  ELSE LET taken == [m EXCEPT !.coefficients = None, !.our_commitments = None]
           r2 == generate_key_r2(us, m.params, m.context, Unwrap(m.coefficients),
                                 Unwrap(m.our_commitments), commitments)
       IN  IF ~IsOk(r2) THEN [m |-> taken, ret |-> r2]
           ELSE [m |-> [taken EXCEPT !.secret = Some(Value(r2).share),
                                     !.commitments = Some(Value(r2).commitments),
                                     !.state = "GeneratedSecretShares"],
                 ret |-> Ok(Value(r2).res)]

\* complete leaving the secret and the commitments in their slots on success
complete_keeping_slots(m, shares) ==
  IF m.state # "GeneratedSecretShares"
    THEN { [m |-> m, ret |-> InvalidKeyGenTransition("GeneratedSecretShares", m.state)] }
  \* self.secret.take().unwrap()
  ELSE IF ~IsSome(m.secret) THEN { [m |-> m, ret |-> Panic("unwrap")] }
  \* self.commitments.take().unwrap()
  ELSE IF ~IsSome(m.commitments)
    THEN { [m |-> [m EXCEPT !.secret = None], ret |-> Panic("unwrap")] }
  ELSE LET taken == [m EXCEPT !.secret = None, !.commitments = None]
       IN  { IF ~IsOk(keys) THEN [m |-> taken, ret |-> keys]
             ELSE [m |-> [m EXCEPT !.state = "Complete"], ret |-> keys] :
             keys \in complete_r2(m.params, Unwrap(m.secret), Unwrap(m.commitments), shares) }

\* complete putting the secret and the commitments back when complete_r2 fails
complete_restoring_slots(m, shares) ==
  IF m.state # "GeneratedSecretShares"
    THEN { [m |-> m, ret |-> InvalidKeyGenTransition("GeneratedSecretShares", m.state)] }
  ELSE IF ~IsSome(m.secret) THEN { [m |-> m, ret |-> Panic("unwrap")] }
  ELSE IF ~IsSome(m.commitments)
    THEN { [m |-> [m EXCEPT !.secret = None], ret |-> Panic("unwrap")] }
  ELSE { IF ~IsOk(keys) THEN [m |-> m, ret |-> keys]
         ELSE [m |-> [m EXCEPT !.secret = None, !.commitments = None,
                               !.state = "Complete"], ret |-> keys] :
         keys \in complete_r2(m.params, Unwrap(m.secret), Unwrap(m.commitments), shares) }

\* the outcomes of complete: one for each result complete_r2 can return
complete(m, shares) ==
  IF m.state # "GeneratedSecretShares"
    THEN { [m |-> m, ret |-> InvalidKeyGenTransition("GeneratedSecretShares", m.state)] }
  \* self.secret.take().unwrap()
  ELSE IF ~IsSome(m.secret) THEN { [m |-> m, ret |-> Panic("unwrap")] }
  \* self.commitments.take().unwrap()
  ELSE IF ~IsSome(m.commitments)
    THEN { [m |-> [m EXCEPT !.secret = None], ret |-> Panic("unwrap")] }
  ELSE LET taken == [m EXCEPT !.secret = None, !.commitments = None]
       IN  { IF ~IsOk(keys) THEN [m |-> taken, ret |-> keys]
             ELSE [m |-> [taken EXCEPT !.state = "Complete"], ret |-> keys] :
             keys \in complete_r2(m.params, Unwrap(m.secret), Unwrap(m.commitments), shares) }

----------------------------------------------------------------------------
(* State *)

VARIABLES
  \* the fields of each participant's StateMachine
  params, context, state, coefficients, our_commitments, secret, commitments,
  \* what each participant's last call was and returned
  result,
  \* what each participant's rng yielded in generate_coefficients
  rng,
  \* the round-1 messages and the round-2 share maps the participants returned
  broadcast, shares,
  \* the machine whose driver is unconstrained (0: none); the maps its
  \* generate_key_r2 (r1) and complete_r2 (r2) were handed and the blinding
  \* factors its rng yielded in verify_r1, forgotten at the next call that
  \* returns before it reads its arguments
  me, delivered, blinding,
  \* per participant: how often each operation returned Ok, and the errors seen
  oks, errors,
  \* one call of polynomial: its arguments and what it returned
  evaluation,
  \* the coordinator: the active tributaries MainDb holds, the NEW_TRIBUTARIES
  \* queue and the task that holds its lock, the tributaries map, the position
  \* of the substrate task, of run's reload and of the tributary task, and
  \* how often add_tributary was called for each spec by each caller
  db, NEW_TRIBUTARIES, lock, tributaries, substrate, reload, tributary, added

machineVars == << params, context, state, coefficients, our_commitments, secret,
                  commitments, result, rng, broadcast, shares, me, delivered,
                  blinding, oks, errors >>
coordinatorVars == << db, NEW_TRIBUTARIES, lock, tributaries, substrate, reload,
                      tributary, added >>

vars == << machineVars, evaluation, coordinatorVars >>

\* no call of polynomial, no coordinator
NoEvaluation == evaluation = None
NoCoordinator ==
  /\ db = << >>
  /\ NEW_TRIBUTARIES = << >>
  /\ lock = None
  /\ tributaries = {}
  /\ substrate = None
  /\ reload = [pc |-> "none", specs |-> << >>]
  /\ tributary = "none"
  /\ added = << >>

Participants == DOMAIN state
Peers(p) == Participants \ {p}

Context == << 7 >>

Seeds == 0 .. MaxSeed

\* F::random(rng): the k-th scalar (k = 1, 2, ...) an rng of the given seed yields
Random(seed, k) == (seed * k + k - 1) % Q

\* the values an rng can yield in generate_key_r1: t coefficients, then r
RndOf(seed, t) ==
  [coefficients |-> [j \in 1 .. t |-> Random(seed, j)], r |-> Random(seed, t + 1)]
RndSet(t) == { RndOf(seed, t) : seed \in Seeds }

\* the blinding factors an rng can yield in verify_r1 (none is drawn for the
\* first peer): 0, 1 or 2 for one peer and 1 for the others, and those of the
\* seeded rngs
UsSet(p) ==
  IF Peers(p) = {} THEN { << >> }
  ELSE { [l \in Peers(p) |-> IF l = k /\ l # Min(Peers(p)) THEN u ELSE 1] :
         k \in Peers(p), u \in {0, 1, 2} }
SeededUsSet(p) ==
  IF Peers(p) = {} THEN { << >> }
  ELSE { [l \in Peers(p) |-> IF l = Min(Peers(p)) THEN 1 ELSE Random(seed, l)] :
         seed \in Seeds }

Operations == {"generate_coefficients", "generate_secret_shares", "complete"}

Machine(p) ==
  [params |-> params[p], context |-> context[p], state |-> state[p],
   coefficients |-> coefficients[p], our_commitments |-> our_commitments[p],
   secret |-> secret[p], commitments |-> commitments[p]]

\* participant p's machine becomes m after operation op returned ret
Returned(p, op, out) ==
  /\ state' = [state EXCEPT ![p] = out.m.state]
  /\ coefficients' = [coefficients EXCEPT ![p] = out.m.coefficients]
  /\ our_commitments' = [our_commitments EXCEPT ![p] = out.m.our_commitments]
  /\ secret' = [secret EXCEPT ![p] = out.m.secret]
  /\ commitments' = [commitments EXCEPT ![p] = out.m.commitments]
  /\ result' = [result EXCEPT ![p] = [op |-> op, ret |-> out.ret]]
  /\ oks' = IF IsOk(out.ret) /\ oks[p][op] < 2
              THEN [oks EXCEPT ![p][op] = @ + 1] ELSE oks
  /\ errors' = IF IsErr(out.ret)
                 THEN [errors EXCEPT ![p] = @ \cup {out.ret.err}] ELSE errors
  /\ UNCHANGED << params, context, evaluation, coordinatorVars >>

\* n machines just constructed by StateMachine::new
InitMachines(n, t) ==
  /\ params = [p \in 1 .. n |-> [n |-> n, t |-> t, i |-> p]]
  /\ context = [p \in 1 .. n |-> Context]
  /\ state = [p \in 1 .. n |-> new(params[p], Context).state]
  /\ coefficients = [p \in 1 .. n |-> None]
  /\ our_commitments = [p \in 1 .. n |-> None]
  /\ secret = [p \in 1 .. n |-> None]
  /\ commitments = [p \in 1 .. n |-> None]
  /\ result = [p \in 1 .. n |-> [op |-> "none", ret |-> NoCall]]
  /\ oks = [p \in 1 .. n |-> [op \in Operations |-> 0]]
  /\ errors = [p \in 1 .. n |-> {}]

----------------------------------------------------------------------------
(* The key generation of n participants whose drivers follow the protocol:
   every call is made in the state it requires, on the messages the peers
   returned *)

DkgInit ==
  \E n \in 1 .. MaxN : \E t \in 1 .. n :
    /\ InitMachines(n, t)
    /\ rng = [p \in 1 .. n |-> None]
    /\ broadcast = [p \in 1 .. n |-> None]
    /\ shares = [p \in 1 .. n |-> None]
    /\ me = 0
    /\ delivered = [r1 |-> None, r2 |-> None]
    /\ blinding = << >>
    /\ NoEvaluation
    /\ NoCoordinator

\* what a driver that follows the protocol waits for before each call
ReadyForCoefficients(p) == state[p] = "Fresh"
ReadyForSecretShares(p) ==
  /\ state[p] = "GeneratedCoefficients"
  /\ result[p].op = "generate_coefficients"
  /\ \A l \in Participants : IsSome(broadcast[l])
ReadyToComplete(p) ==
  /\ state[p] = "GeneratedSecretShares"
  /\ result[p].op = "generate_secret_shares"
  /\ \A l \in Participants : IsSome(shares[l])

DkgGenerateCoefficients(p) ==
  /\ ReadyForCoefficients(p)
  /\ \E rnd \in RndSet(params[p].t) :
       \E out \in { generate_coefficients(Machine(p), rnd) } :
           /\ Returned(p, "generate_coefficients", out)
           /\ rng' = [rng EXCEPT ![p] = Some(rnd)]
           /\ broadcast' = [broadcast EXCEPT ![p] = Some(Value(out.ret))]
  /\ UNCHANGED << shares, me, delivered, blinding >>

DkgGenerateSecretShares(p) ==
  /\ ReadyForSecretShares(p)
  /\ \E us \in SeededUsSet(p) :
       \E out \in { generate_secret_shares(Machine(p), us,
                                             [l \in Peers(p) |-> Unwrap(broadcast[l])]) } :
           /\ Returned(p, "generate_secret_shares", out)
           /\ shares' = IF IsOk(out.ret)
                           THEN [shares EXCEPT ![p] = Some(Value(out.ret))] ELSE shares
  /\ UNCHANGED << rng, broadcast, me, delivered, blinding >>

DkgComplete(p) ==
  /\ ReadyToComplete(p)
  /\ \E out \in complete(Machine(p), [l \in Peers(p) |-> Unwrap(shares[l])[p]]) :
       Returned(p, "complete", out)
  /\ UNCHANGED << rng, broadcast, shares, me, delivered, blinding >>

DkgNext ==
  \E p \in Participants :
    \/ DkgGenerateCoefficients(p)
    \/ DkgGenerateSecretShares(p)
    \/ DkgComplete(p)

DkgSpec == DkgInit /\ [][DkgNext]_vars

----------------------------------------------------------------------------
(* One machine, me, under a driver that calls any operation at any time and
   hands it any of the maps below; the peers are honest: their round-1
   messages and round-2 shares are those generate_key_r1 and polynomial give
   for their rngs *)

\* the honest round-1 message and round-2 shares of a peer p of seed `seed`
PeerBroadcast(n, t, p, seed) ==
  generate_key_r1([n |-> n, t |-> t, i |-> p], Context, RndOf(seed, t))[2]
PeerShares(n, t, p, seed) ==
  [l \in (1 .. n) \ {p} |-> F_to_bytes(polynomial(RndOf(seed, t).coefficients, l))]

\* the (n, t) of the machines: every 1 <= t <= n <= MaxN, and n = 4, t = 2
Sizes ==
  { size \in (1 .. MaxN) \X (1 .. MaxN) : size[2] <= size[1] } \cup { << 4, 2 >> }

Init ==
  \E size \in Sizes : \E i \in 1 .. size[1] : \E base \in Seeds :
    LET n == size[1]
        t == size[2]
        seed == [p \in 1 .. n |-> (base + p) % (MaxSeed + 1)]
    IN  /\ InitMachines(n, t)
        /\ me = i
        /\ rng = [p \in 1 .. n |-> IF p = i THEN None ELSE Some(RndOf(seed[p], t))]
        /\ broadcast = [p \in 1 .. n |->
                          IF p = i THEN None ELSE Some(PeerBroadcast(n, t, p, seed[p]))]
        /\ shares = [p \in 1 .. n |->
                       IF p = i THEN None ELSE Some(PeerShares(n, t, p, seed[p]))]
        /\ delivered = [r1 |-> None, r2 |-> None]
        /\ blinding = << >>
        /\ NoEvaluation
        /\ NoCoordinator

\* the bytes a driver may put in place of byte k of a message: in place of a
\* commitment 0 (no point) or the identity, in place of R 0, in place of s any
\* scalar or Q (no canonical scalar)
TamperBytes(k) ==
  IF k <= params[me].t THEN {0, identity}
  ELSE IF k = params[me].t + 1 THEN {0}
  ELSE 0 .. Q

\* the round-1 messages of the peers as they sent them
Honest1 == [l \in Peers(me) |-> Unwrap(broadcast[l])]

\* the context string of a second run of the same participants
OtherContext == << 8 >>

\* the round-1 message peer l sends in a run on OtherContext in which its rng
\* yields what it yields in this run
OtherBroadcast(l) == generate_key_r1(params[l], OtherContext, Unwrap(rng[l]))[2]

\* the commitments peer l sent in this run followed by the proof (R, s) of its
\* message in the other run
Grafted(l) ==
  LET commitments_len == params[me].t * G_len
  IN  Am(Honest1[l], commitments_len)
        \o Slice(OtherBroadcast(l), commitments_len, Len(OtherBroadcast(l)))

\* a message cut to its first k bytes, and one with a byte appended
Truncated(msg, k) == Slice(msg, 0, k)
Extended(msg) == Append(msg, 0)

\* the maps a driver may hand to generate_secret_shares: the honest one; one
\* byte of one message replaced; the s of every message moved by 0, 1 or -1; a
\* peer left out; an entry for the local index added; an entry for the index
\* n + 1 added; the proof of one message replaced by the one of the other run;
\* one message cut short or extended
Round1Maps ==
  {Honest1}
    \cup UNION { { [Honest1 EXCEPT ![l][k] = v] : v \in TamperBytes(k) } :
                   l \in Peers(me), k \in 1 .. (params[me].t + 2) }
    \cup { [l \in Peers(me) |->
              [Honest1[l] EXCEPT ![params[me].t + 2] = FAdd(@, d[l])]] :
             d \in [Peers(me) -> {0, 1, Q - 1}] }
    \cup { [l \in Peers(me) \ {o} |-> Honest1[l]] : o \in Peers(me) }
    \cup { [l \in Participants |-> IF l = me THEN << 0 >> ELSE Honest1[l]] }
    \cup { [l \in Peers(me) \cup {params[me].n + 1} |->
              IF l \in Peers(me) THEN Honest1[l] ELSE << 0 >>] }
    \cup { [Honest1 EXCEPT ![l] = Grafted(l)] : l \in Peers(me) }
    \cup { [Honest1 EXCEPT ![l] = Truncated(@, k)] :
             l \in Peers(me), k \in 0 .. (params[me].t + 1) }
    \cup { [Honest1 EXCEPT ![l] = Extended(@)] : l \in Peers(me) }

\* a byte that decodes to nothing in place of byte k of a message: 0 (no point)
\* in a commitment and in R, Q (no canonical scalar) in s
Undecodable(k) == IF k <= params[me].t + 1 THEN 0 ELSE Q

\* more maps a driver may hand to generate_secret_shares, each with a message
\* that does not decode: the s of one message moved by 1 and a byte of the
\* message of another peer undecodable; two of the first commitment, R and s
\* undecodable, in one message or in the messages of two peers
Round1Pairs ==
  { [Honest1 EXCEPT ![x[1]][params[me].t + 2] = FAdd(@, 1), ![x[2]][x[3]] = Undecodable(x[3])] :
      x \in { y \in Peers(me) \X Peers(me) \X (1 .. (params[me].t + 2)) : y[1] # y[2] } }
    \cup
  { [Honest1 EXCEPT ![x[1]][x[2]] = Undecodable(x[2]), ![x[3]][x[4]] = Undecodable(x[4])] :
      x \in { y \in Peers(me) \X {1, params[me].t + 1, params[me].t + 2}
                      \X Peers(me) \X {1, params[me].t + 1, params[me].t + 2} :
                 << y[1], y[2] >> # << y[3], y[4] >> } }

\* the round-2 shares of the peers for me as they sent them
Honest2 == [l \in Peers(me) |-> Unwrap(shares[l])[me]]

\* the maps a driver may hand to complete: the honest one; one share replaced by
\* any scalar, canonical or not (Q); every share moved by 0 or 1; a peer left
\* out; an entry for the local index added; an entry for the index n + 1 added
Round2Maps ==
  {Honest2}
    \cup { [Honest2 EXCEPT ![l] = << v >>] : l \in Peers(me), v \in 0 .. Q }
    \cup { [l \in Peers(me) |-> << FAdd(Honest2[l][1], d[l]) >>] :
             d \in [Peers(me) -> {0, 1}] }
    \cup { [l \in Peers(me) \ {o} |-> Honest2[l]] : o \in Peers(me) }
    \cup { [l \in Participants |-> IF l = me THEN << 0 >> ELSE Honest2[l]] }
    \cup { [l \in Peers(me) \cup {params[me].n + 1} |->
              IF l \in Peers(me) THEN Honest2[l] ELSE << 0 >>] }

GenerateCoefficients ==
  /\ \E rnd \in (IF state[me] = "Fresh" THEN RndSet(params[me].t)
                  ELSE { RndOf(0, params[me].t) }) :
       \E out \in { generate_coefficients(Machine(me), rnd) } :
         /\ Returned(me, "generate_coefficients", out)
         /\ rng' = IF IsOk(out.ret) THEN [rng EXCEPT ![me] = Some(rnd)] ELSE rng
         /\ broadcast' = IF IsOk(out.ret)
                            THEN [broadcast EXCEPT ![me] = Some(Value(out.ret))]
                            ELSE broadcast
  /\ delivered' = [r1 |-> None, r2 |-> None]
  /\ blinding' = << >>
  /\ UNCHANGED << shares, me >>

\* a call that returns or panics before it reads its arguments is made with
\* one rng and with the honest map only; so is a complete after a round 1 that
\* was not honest. The maps of Round1Pairs, which verify_r1 rejects before it
\* uses a blinding factor, are handed with one rng.
GenerateSecretShares ==
  LET reads == state[me] = "GeneratedCoefficients" /\ IsSome(coefficients[me])
                 /\ IsSome(our_commitments[me])
  IN  /\ \E map \in (IF reads THEN Round1Maps \cup Round1Pairs ELSE {Honest1}) :
           \E us \in (IF reads /\ map \in Round1Maps THEN UsSet(me)
                       ELSE { [l \in Peers(me) |-> 1] }) :
             \E out \in { generate_secret_shares(Machine(me), us, map) } :
               /\ Returned(me, "generate_secret_shares", out)
               /\ delivered' = [r1 |-> IF reads THEN Some(map) ELSE None, r2 |-> None]
               /\ blinding' = IF reads THEN us ELSE << >>
      /\ UNCHANGED << rng, broadcast, shares, me >>

Complete ==
  LET reads == state[me] = "GeneratedSecretShares" /\ IsSome(secret[me])
                 /\ IsSome(commitments[me])
      honest1 == delivered.r1 = Some(Honest1)
  IN  /\ \E map \in (IF reads /\ honest1 THEN Round2Maps ELSE {Honest2}) :
           \E out \in complete(Machine(me), map) :
             /\ Returned(me, "complete", out)
             /\ delivered' = IF reads THEN [delivered EXCEPT !.r2 = Some(map)]
                              ELSE [r1 |-> None, r2 |-> None]
      /\ blinding' = << >>
      /\ UNCHANGED << rng, broadcast, shares, me >>

Next ==
  \/ GenerateCoefficients
  \/ GenerateSecretShares
  \/ Complete

Spec == Init /\ [][Next]_vars

----------------------------------------------------------------------------
(* polynomial on any t coefficients and any index l of a key generation of
   n participants, 1 <= t <= n, 1 <= l <= n *)

\* no StateMachine
NoMachines ==
  /\ InitMachines(0, 0)
  /\ rng = << >>
  /\ broadcast = << >>
  /\ shares = << >>
  /\ me = 0
  /\ delivered = [r1 |-> None, r2 |-> None]
  /\ blinding = << >>

PolyInit ==
  \E n \in 1 .. MaxN : \E t \in 1 .. n : \E l \in 1 .. n :
    \E a \in [1 .. t -> F] :
      /\ evaluation = Some([coefficients |-> a, l |-> l, share |-> None])
      /\ NoMachines
      /\ NoCoordinator

PolyEvaluate ==
  /\ IsSome(evaluation)
  /\ Unwrap(evaluation).share = None
  /\ evaluation' =
       Some([Unwrap(evaluation) EXCEPT
               !.share = Some(polynomial(Unwrap(evaluation).coefficients,
                                         Unwrap(evaluation).l))])
  /\ UNCHANGED << machineVars, coordinatorVars >>

PolyNext == PolyEvaluate

PolySpec == PolyInit /\ [][PolyNext]_vars

----------------------------------------------------------------------------
(* The coordinator's run: the substrate task, spawned first, registers new
   tributaries; run reloads the active tributaries of the database and then
   spawns the tributary task, which drains NEW_TRIBUTARIES. The tasks run
   concurrently and yield at every await. *)

MaxSpecs == 3

\* the TributarySpecs, told apart by their genesis
Specs == 1 .. MaxSpecs

\* MainDb: add_active_tributary appends the spec to the active tributaries
\* saved in the database, active_tributaries reads them
add_active_tributary(saved, spec) == Append(saved, spec)
active_tributaries(saved) == saved

\* add_tributary, called by the reload or for a spec of the queue: the
\* Tributary is instantiated and inserted under its genesis
add_tributary(spec, by) ==
  /\ tributaries' = tributaries \cup {spec}
  /\ added' = [added EXCEPT ![spec][by] = @ + 1]

\* the database holds the specs an earlier run saved, the queue of the new
\* process is empty, the substrate task is spawned, run is about to reload
CoordinatorInit ==
  \E k \in 0 .. MaxSpecs :
    /\ db = [j \in 1 .. k |-> j]
    /\ NEW_TRIBUTARIES = << >>
    /\ lock = None
    /\ tributaries = {}
    /\ substrate = None
    /\ reload = [pc |-> "read", specs |-> << >>]
    /\ tributary = "none"
    /\ added = [spec \in Specs |-> [reload |-> 0, queue |-> 0]]
    /\ NoMachines
    /\ NoEvaluation

\* add_new_tributary, line 56: the substrate task saves a spec it has not
\* registered before
SubstrateSave(spec) ==
  /\ substrate = None
  /\ \A j \in DOMAIN db : db[j] # spec
  /\ db' = add_active_tributary(db, spec)
  /\ substrate' = Some(spec)
  /\ UNCHANGED << NEW_TRIBUTARIES, lock, tributaries, reload, tributary, added,
                  machineVars, evaluation >>

\* add_new_tributary, line 60: it takes the write lock and queues the spec
SubstrateQueue ==
  /\ IsSome(substrate)
  /\ lock = None
  /\ NEW_TRIBUTARIES' = Append(NEW_TRIBUTARIES, Unwrap(substrate))
  /\ substrate' = None
  /\ UNCHANGED << db, lock, tributaries, reload, tributary, added,
                  machineVars, evaluation >>

\* line 124: run reads the active tributaries once
ReloadRead ==
  /\ reload.pc = "read"
  /\ reload' = [pc |-> "add", specs |-> active_tributaries(db)]
  /\ UNCHANGED << db, NEW_TRIBUTARIES, lock, tributaries, substrate, tributary, added,
                  machineVars, evaluation >>

\* lines 125-132: one iteration of the reload
ReloadAdd ==
  /\ reload.pc = "add"
  /\ reload.specs # << >>
  /\ add_tributary(Head(reload.specs), "reload")
  /\ reload' = [reload EXCEPT !.specs = Tail(@)]
  /\ UNCHANGED << db, NEW_TRIBUTARIES, lock, substrate, tributary,
                  machineVars, evaluation >>

\* lines 136-140: the reload is over, run spawns the tributary task
SpawnTributaryTask ==
  /\ reload.pc = "add"
  /\ reload.specs = << >>
  /\ reload' = [reload EXCEPT !.pc = "done"]
  /\ tributary' = "lock"
  /\ UNCHANGED << db, NEW_TRIBUTARIES, lock, tributaries, substrate, added,
                  machineVars, evaluation >>

\* line 148: the tributary task takes the write lock of NEW_TRIBUTARIES
DrainLock ==
  /\ tributary = "lock"
  /\ lock = None
  /\ lock' = Some("tributary")
  /\ tributary' = "drain"
  /\ UNCHANGED << db, NEW_TRIBUTARIES, tributaries, substrate, reload, added,
                  machineVars, evaluation >>

\* lines 149-158: it pops a spec and adds its tributary
DrainPop ==
  /\ tributary = "drain"
  /\ NEW_TRIBUTARIES # << >>
  /\ add_tributary(Head(NEW_TRIBUTARIES), "queue")
  /\ NEW_TRIBUTARIES' = Tail(NEW_TRIBUTARIES)
  /\ UNCHANGED << db, lock, substrate, reload, tributary,
                  machineVars, evaluation >>

\* lines 149, 160: the queue is empty, the lock is dropped
DrainUnlock ==
  /\ tributary = "drain"
  /\ NEW_TRIBUTARIES = << >>
  /\ lock' = None
  /\ tributary' = "scan"
  /\ UNCHANGED << db, NEW_TRIBUTARIES, tributaries, substrate, reload, added,
                  machineVars, evaluation >>

\* lines 164-175: the tributaries are scanned, the task sleeps and loops
Scan ==
  /\ tributary = "scan"
  /\ tributary' = "lock"
  /\ UNCHANGED << db, NEW_TRIBUTARIES, lock, tributaries, substrate, reload, added,
                  machineVars, evaluation >>

CoordinatorNext ==
  \/ \E spec \in Specs : SubstrateSave(spec)
  \/ SubstrateQueue
  \/ ReloadRead
  \/ ReloadAdd
  \/ SpawnTributaryTask
  \/ DrainLock
  \/ DrainPop
  \/ DrainUnlock
  \/ Scan

CoordinatorSpec == CoordinatorInit /\ [][CoordinatorNext]_vars

----------------------------------------------------------------------------
(* Properties of the StateMachine *)

\* the state an operation requires
Required(op) ==
  CASE op = "generate_coefficients" -> "Fresh"
    [] op = "generate_secret_shares" -> "GeneratedCoefficients"
    [] op = "complete" -> "GeneratedSecretShares"
    [] OTHER -> ""

Rank(st) ==
  CASE st = "Fresh" -> 0
    [] st = "GeneratedCoefficients" -> 1
    [] st = "GeneratedSecretShares" -> 2
    [] st = "Complete" -> 3

\* the state and the four slots of p's machine
Fields(p) ==
  << state[p], coefficients[p], our_commitments[p], secret[p], commitments[p] >>

SameReturn(r1, r2) ==
  /\ r1.op = r2.op
  /\ r1.ret.tag = r2.ret.tag
  /\ r1.ret.err = r2.ret.err
  /\ r1.ret.l = r2.ret.l
  /\ r1.ret.expected = r2.ret.expected
  /\ r1.ret.actual = r2.ret.actual
  /\ r1.ret.val = r2.ret.val

\* this step is a call of p's machine (the operation is result'[p].op)
Called(p) == ~SameReturn(result[p], result'[p]) \/ Fields(p)' # Fields(p)

\* C1: an operation invoked in a state other than the one it requires returns
\* InvalidKeyGenTransition(required state, actual state) and leaves the state
\* and the four slots as they were.
C1_WrongStateRejected ==
  [][\A p \in Participants :
       (Called(p) /\ state[p] # Required(result'[p].op))
         => /\ SameReturn(result'[p],
                          [op |-> result'[p].op,
                           ret |-> InvalidKeyGenTransition(Required(result'[p].op), state[p])])
            /\ Fields(p)' = Fields(p)]_vars

\* generate_secret_shares was called again after it succeeded: the call is
\* rejected and the secret is still in its slot
C1_Witness ==
  \E p \in Participants :
    /\ result[p].op = "generate_secret_shares"
    /\ result[p].ret.err = "InvalidKeyGenTransition"
    /\ result[p].ret.actual = "GeneratedSecretShares"
    /\ IsSome(secret[p])

\* C2: the state only moves one step forward along Fresh,
\* GeneratedCoefficients, GeneratedSecretShares, Complete, and each operation
\* returns Ok at most once.
C2_OneTraversal ==
  [][\A p \in Participants :
       /\ Rank(state'[p]) - Rank(state[p]) \in {0, 1}
       /\ \A op \in Operations : oks'[p][op] <= 1]_vars

\* a machine that went through the three rounds and was called once more
C2_Witness ==
  \E p \in Participants :
    /\ state[p] = "Complete"
    /\ \A op \in Operations : oks[p][op] = 1
    /\ result[p].ret.err = "InvalidKeyGenTransition"

\* C3: no call panics by unwrapping an empty coefficients, our_commitments,
\* secret or commitments slot.
C3_NoUnwrapPanic ==
  \A p \in Participants :
    ~(result[p].ret.tag = "Panic" /\ result[p].ret.err = "unwrap")

\* an error other than a refused transition was returned
Fatal(p) == errors[p] \ {"InvalidKeyGenTransition"} # {}

\* C4 as stated: once any operation has returned an error, no later operation
\* returns Ok and the machine does not reach Complete.
C4_AnyErrorIsFinal ==
  [][\A p \in Participants :
       errors[p] # {}
         => /\ ~IsOk(result'[p].ret)
            /\ state'[p] = "Complete" => state[p] = "Complete"]_vars

\* C4 amended: once generate_secret_shares or complete has returned an error
\* other than InvalidKeyGenTransition, no later operation returns Ok and the
\* machine does not reach Complete.
C4_FatalErrorIsFinal ==
  [][\A p \in Participants :
       Fatal(p)
         => /\ ~IsOk(result'[p].ret)
            /\ state'[p] = "Complete" => state[p] = "Complete"]_vars

\* after such an error a later operation was called
C4_Witness ==
  \E p \in Participants :
    /\ Fatal(p)
    /\ result[p].ret.err \in {"InvalidKeyGenTransition", "unwrap"}

----------------------------------------------------------------------------
(* Properties of the honest run *)

AllComplete == \A p \in Participants : state[p] = "Complete"

\* the MultisigKeys complete returned to p
Keys(p) == Value(result[p].ret)

\* no driver has a call to make
Ended ==
  \A p \in Participants :
    ~ReadyForCoefficients(p) /\ ~ReadyForSecretShares(p) /\ ~ReadyToComplete(p)

\* C5: when all participants run the three operations on each other's
\* unmodified messages, no call fails, the run ends only with every participant
\* in Complete, and all hold the same group_key and verification_shares.
C5_HonestRunAgrees ==
  /\ \A p \in Participants : result[p].ret.tag \in {"None", "Ok"}
  /\ Ended => AllComplete
  /\ \A p, q \in Participants :
       (state[p] = "Complete" /\ state[q] = "Complete")
         => /\ Keys(p).group_key = Keys(q).group_key
            /\ Keys(p).verification_shares = Keys(q).verification_shares

\* three participants with a polynomial of degree 1 at least are all Complete
C5_Witness ==
  /\ AllComplete
  /\ Cardinality(Participants) >= 3
  /\ params[1].t >= 2

\* C6: in an honest run the entry verification_shares[l] computed by
\* participant i is secret_share_l * G, for the secret share complete gave l.
C6_VerificationShares ==
  \A i, l \in Participants :
    (state[i] = "Complete" /\ state[l] = "Complete")
      => Keys(i).verification_shares[l] = generator_table(Keys(l).secret_share)

\* two participants are Complete, one holding a nonzero share the other one
\* has the verification share of
C6_Witness ==
  \E i, l \in Participants :
    /\ i # l
    /\ state[i] = "Complete" /\ state[l] = "Complete"
    /\ Keys(l).secret_share # 0
    /\ Keys(i).verification_shares[l] # identity

\* the product of a scalar per element of a set
RECURSIVE ProdF(_, _)
ProdF(f, S) ==
  IF S = {} THEN 1 ELSE LET x == Min(S) IN FMul(f[x], ProdF(f, S \ {x}))

\* the Lagrange coefficient at 0 of i in the quorum Qs
Lagrange(i, Qs) ==
  ProdF([j \in Qs \ {i} |-> FMul(FFrom(j), FInv(FSub(FFrom(j), FFrom(i))))], Qs \ {i})

\* the interpolation at 0 of the secret shares of Qs
Interpolate(Qs) ==
  SumF([i \in Qs |-> FMul(Lagrange(i, Qs), Keys(i).secret_share)], Qs)

\* f(0): the sum of the coefficients a_0 the participants drew
SharedSecret == SumF([p \in Participants |-> Unwrap(rng[p]).coefficients[1]], Participants)

\* C7: in an honest run the secret shares of every quorum of t participants
\* interpolate at 0 to the sum of the coefficients a_0, whose multiple of G is
\* the group_key.
C7_Reconstruction ==
  AllComplete
    => /\ \A Qs \in SUBSET Participants :
            Cardinality(Qs) = params[1].t => Interpolate(Qs) = SharedSecret
       /\ \A p \in Participants : Keys(p).group_key = generator_table(SharedSecret)

\* a run of three participants with threshold two and a nonzero shared secret
C7_Witness ==
  /\ AllComplete
  /\ Cardinality(Participants) = 3
  /\ params[1].t = 2
  /\ SharedSecret # 0
  /\ Interpolate({1, 3}) = SharedSecret

----------------------------------------------------------------------------
(* Properties of one machine among honest peers *)

\* the last call of me was op and read the map it was handed
Read1 == result[me].op = "generate_secret_shares" /\ IsSome(delivered.r1)
Read2 == result[me].op = "complete" /\ IsSome(delivered.r2)

\* the commitments A_{l,0}, .., A_{l,t-1} peer l broadcast
BroadcastCommitments(l) ==
  [j \in 1 .. params[me].t |-> G_from_slice(<< Unwrap(broadcast[l])[j] >>)]

\* the peers whose share in the map does not satisfy
\* share * G == sum_j i^j * A_{l,j}
SharesFailing(map) ==
  { l \in Peers(me) :
      generator_table(F_from_slice(map[l]))
        # multiexp_vartime(Exps(FFrom(me), params[me].t, 1), BroadcastCommitments(l)) }

\* C8: after an honest round 1, when the shares handed to complete are
\* canonical scalars and those of some peers are not the ones they sent,
\* complete returns InvalidCommitment(l) for one of these peers l, a peer whose
\* share fails the check against its commitments, and the state does not become
\* Complete.
C8_ReplacedShareBlamed ==
  (Read2 /\ delivered.r1 = Some(Honest1))
    => LET map == Unwrap(delivered.r2)
           replaced == { l \in Peers(me) : map[l] # Honest2[l] }
       IN  (/\ DOMAIN map = Peers(me)
            /\ \A l \in Peers(me) : F_from_slice(map[l]) # DecodeError
            /\ replaced # {})
             => /\ result[me].ret.err = "InvalidCommitment"
                /\ result[me].ret.l \in replaced
                /\ result[me].ret.l \in SharesFailing(map)
                /\ state[me] # "Complete"

\* complete was handed two replaced shares and blamed the sender of the second
C8_Witness ==
  /\ Read2 /\ delivered.r1 = Some(Honest1)
  /\ DOMAIN Unwrap(delivered.r2) = Peers(me)
  /\ Cardinality({ l \in Peers(me) : Unwrap(delivered.r2)[l] # Honest2[l] }) = 2
  /\ result[me].ret.err = "InvalidCommitment"
  /\ result[me].ret.l = 3

\* the peers whose message in the map does not satisfy
\* s_l * G == R_l + c_l * A_{l,0}
ProofsFailing(map) ==
  { l \in Peers(me) :
      ~ProofHolds(params[me], context[me], map[l],
                  Value(ParseMessage(params[me], map[l], l)), l) }

Differing(m1, m2) == { k \in 1 .. Len(m1) : m1[k] # m2[k] }

\* C10: when one component of the round-1 message of one peer l is replaced by
\* a different value, verification returns InvalidProofOfKnowledge(l) or
\* InvalidCommitment(l).
C10_ReplacedComponentBlamed ==
  Read1
    => LET map == Unwrap(delivered.r1)
       IN  \A l \in Peers(me) :
             (/\ DOMAIN map = Peers(me)
              /\ \A k \in Peers(me) \ {l} : map[k] = Honest1[k]
              /\ Len(map[l]) = Len(Honest1[l])
              /\ Cardinality(Differing(map[l], Honest1[l])) = 1)
               => /\ result[me].ret.err \in {"InvalidProofOfKnowledge", "InvalidCommitment"}
                  /\ result[me].ret.l = l

----------------------------------------------------------------------------
(* Properties of the context *)

\* C11: a round-1 message made of the commitments of this run and of the proof
\* (R, s) the same peer produced under the other context fails verification.
C11_GraftRejected ==
  Read1
    => \A l \in Peers(me) :
         delivered.r1 = Some([Honest1 EXCEPT ![l] = Grafted(l)])
           => IsErr(result[me].ret)

\* the results of complete for participant p in a run on OtherContext in which
\* every rng yields what it yields in this run; us: the blinding factors of p.
\* The peers send p the shares generate_key_r2 computes from their coefficients.
OtherKeys(p, us) ==
  LET r1 == [l \in Participants |->
               generate_key_r1(params[l], OtherContext, Unwrap(rng[l]))]
      r2 == generate_key_r2(us, params[p], OtherContext, r1[p][1], r1[p][2],
                            [k \in Peers(p) |-> r1[k][2]])
  IN  IF ~IsOk(r2) THEN { r2 }
      ELSE complete_r2(params[p], Value(r2).share, Value(r2).commitments,
                       [l \in Peers(p) |-> F_to_bytes(polynomial(r1[l][1], p))])

\* C12 as stated: with n = 3 and t = 2, the group_key of the run on the other
\* context with the same rng streams differs from the one of this run.
C12_GroupKeysDiffer ==
  \A p \in Participants :
    (state[p] = "Complete" /\ params[p].n = 3 /\ params[p].t = 2)
      => \A us \in SeededUsSet(p) : \A keys \in OtherKeys(p, us) :
           IsOk(keys) => Value(keys).group_key # Keys(p).group_key

\* C12 amended: the run on the other context with the same rng streams
\* completes with the same group_key as this run.
C12_GroupKeyIgnoresContext ==
  \A p \in Participants :
    state[p] = "Complete"
      => \A us \in SeededUsSet(p) : \A keys \in OtherKeys(p, us) :
           IsOk(keys) /\ Value(keys).group_key = Keys(p).group_key

\* a run with n = 3 and t = 2 is complete, and a participant's round-1
\* message of the run on the other context is another one
C12_Witness ==
  /\ AllComplete
  /\ params[1].n = 3 /\ params[1].t = 2
  /\ \E l \in Participants :
       generate_key_r1(params[l], OtherContext, Unwrap(rng[l]))[2] # Unwrap(broadcast[l])
  /\ \E keys \in OtherKeys(1, [k \in Peers(1) |-> 1]) : IsOk(keys)

----------------------------------------------------------------------------
(* Properties of the decoding of the maps *)

\* the keys of a map do not make 1 .. n once the local index is added, or the
\* local index is among them
BadKeys(map) ==
  \/ me \in DOMAIN map
  \/ (DOMAIN map) \cup {me} # 1 .. params[me].n

\* the error names an index of 1 .. n the map lacks, or an index of the map
\* that is the local one or none of 1 .. n
KeysError(map, ret) ==
  /\ IsErr(ret)
  /\ \/ /\ ret.err = "MissingParticipant"
        /\ ret.l \in (1 .. params[me].n) \ ((DOMAIN map) \cup {me})
     \/ /\ ret.err = "DuplicatedIndex"
        /\ ret.l \in DOMAIN map
        /\ ret.l = me \/ ret.l \notin 1 .. params[me].n

SharesUndecodable(map) == { l \in DOMAIN map : F_from_slice(map[l]) = DecodeError }

\* C14: when the share bytes of some peers do not decode to a canonical scalar,
\* complete returns InvalidShare(l) for such a peer l.
C14_InvalidShareNamesSender ==
  Read2
    => LET map == Unwrap(delivered.r2)
       IN  (DOMAIN map = Peers(me) /\ SharesUndecodable(map) # {})
             => /\ result[me].ret.err = "InvalidShare"
                /\ result[me].ret.l \in SharesUndecodable(map)

\* C15: a round-1 message of a peer l that is shorter or longer than
\* t * G_len + G_len + F_len is rejected with InvalidCommitment(l) when it ends
\* within the commitments and with InvalidProofOfKnowledge(l) otherwise; the
\* call does not panic.
C15_WrongLengthRejected ==
  Read1
    => LET map == Unwrap(delivered.r1)
           commitments_len == params[me].t * G_len
       IN  \A l \in Peers(me) :
             (/\ DOMAIN map = Peers(me)
              /\ \A k \in Peers(me) \ {l} : map[k] = Honest1[k]
              /\ Len(map[l]) # commitments_len + G_len + F_len)
               => /\ IsErr(result[me].ret)
                  /\ result[me].ret.l = l
                  /\ result[me].ret.err =
                       IF Len(map[l]) < commitments_len THEN "InvalidCommitment"
                       ELSE "InvalidProofOfKnowledge"

----------------------------------------------------------------------------
(* The machine of n = 4, t = 2 called out of order *)

\* me is a machine of n = 4, t = 2 in state Fresh and this step is a call of
\* its generate_secret_shares
FreshSecretShares ==
  /\ params[me].n = 4 /\ params[me].t = 2
  /\ state[me] = "Fresh"
  /\ Called(me)
  /\ result'[me].op = "generate_secret_shares"

\* C16 as stated: with n = 4, t = 2, generate_secret_shares on a Fresh machine
\* returns InvalidKeyGenTransition(Fresh, Fresh) and the state remains Fresh.
C16_FreshFresh ==
  [][FreshSecretShares
       => /\ SameReturn(result'[me], [op |-> "generate_secret_shares",
                                       ret |-> InvalidKeyGenTransition("Fresh", "Fresh")])
          /\ state'[me] = "Fresh"]_vars

\* C16 amended: with n = 4, t = 2, generate_secret_shares on a Fresh machine
\* returns InvalidKeyGenTransition(GeneratedCoefficients, Fresh) and the state
\* remains Fresh.
C16_GeneratedCoefficientsFresh ==
  [][FreshSecretShares
       => /\ SameReturn(result'[me],
                        [op |-> "generate_secret_shares",
                         ret |-> InvalidKeyGenTransition("GeneratedCoefficients", "Fresh")])
          /\ state'[me] = "Fresh"]_vars

\* generate_secret_shares was the first call of a machine of n = 4, t = 2
C16_Witness ==
  /\ params[me].n = 4 /\ params[me].t = 2
  /\ state[me] = "Fresh"
  /\ result[me].op = "generate_secret_shares"
  /\ result[me].ret.err = "InvalidKeyGenTransition"
  /\ oks[me]["generate_coefficients"] = 0

----------------------------------------------------------------------------
(* Properties of the batched verification *)

\* the map has the keys of the peers and every message of it decodes
AllDecode(map) ==
  /\ DOMAIN map = Peers(me)
  /\ \A l \in Peers(me) : IsOk(ParseMessage(params[me], map[l], l))

\* the sum the batched check of verify_r1 computes for the map and the blinding
\* factors the rng yielded
BatchSum(map) ==
  LET serialized == [l \in Participants |->
                       IF l = me THEN Unwrap(broadcast[me]) ELSE map[l]]
      parsed == [l \in Participants |-> Value(ParseMessage(params[me], serialized[l], l))]
      terms == BatchTerms(params[me], context[me], serialized, parsed, blinding, 1)
  IN  multiexp_vartime(terms.scalars, terms.points)

\* C17: when every round-1 message decodes and the batched check rejects,
\* verify_r1 returns InvalidProofOfKnowledge(l) for the lowest peer l whose
\* identity s_l * G == R_l + c_l * A_{l,0} fails.
C17_LowestFailingBlamed ==
  Read1
    => LET map == Unwrap(delivered.r1)
       IN  (AllDecode(map) /\ BatchSum(map) # identity)
             => /\ IsErr(result[me].ret)
                /\ result[me].ret.err = "InvalidProofOfKnowledge"
                /\ result[me].ret.l \in ProofsFailing(map)
                /\ \A k \in ProofsFailing(map) : result[me].ret.l <= k

\* the batched check rejected a map in which the proofs of two peers fail, one
\* of them not the first peer, and the lower one was blamed
C17_Witness ==
  /\ Read1
  /\ AllDecode(Unwrap(delivered.r1))
  /\ BatchSum(Unwrap(delivered.r1)) # identity
  /\ Cardinality(ProofsFailing(Unwrap(delivered.r1))) = 2
  /\ result[me].ret.err = "InvalidProofOfKnowledge"
  /\ result[me].ret.l # FirstPeer(params[me])

\* C18: verify_r1 never returns InternalError: when every message decodes and
\* the identity of every peer holds, the blinded sum is the identity and the
\* batch accepts, whatever the blinding factors.
C18_NoInternalError ==
  Read1
    => /\ result[me].ret.err # "InternalError"
       /\ LET map == Unwrap(delivered.r1)
          IN  (AllDecode(map) /\ ProofsFailing(map) = {})
                => BatchSum(map) = identity /\ IsOk(result[me].ret)

\* the batch accepted the proofs of three peers, which all hold, with the
\* blinding factor 0 for one and 1 for another
C18_Witness ==
  /\ Read1
  /\ AllDecode(Unwrap(delivered.r1))
  /\ ProofsFailing(Unwrap(delivered.r1)) = {}
  /\ Cardinality(Peers(me)) = 3
  /\ \E l \in Peers(me) : blinding[l] = 0
  /\ IsOk(result[me].ret)

----------------------------------------------------------------------------
(* Properties of the secret shares and of the slots *)

\* f(x) = a_0 + a_1 * x + ... + a_{t-1} * x^(t-1) for the coefficients a
Evaluate(a, x) ==
  SumF([j \in 1 .. Len(a) |-> FMul(a[j], FPow(FFrom(x), j - 1))], 1 .. Len(a))

\* C19: on success generate_secret_shares of participant i returns a map of
\* the keys 1 .. n without i whose value at l is the encoding of f_i(l); f_i(i)
\* is in the secret slot and the map has no entry for i.
C19_SharesReturned ==
  (Read1 /\ IsOk(result[me].ret))
    => LET res == Value(result[me].ret)
           a == Unwrap(rng[me]).coefficients
       IN  /\ DOMAIN res = (1 .. params[me].n) \ {me}
           /\ \A l \in DOMAIN res : res[l] = F_to_bytes(Evaluate(a, l))
           /\ secret[me] = Some(Evaluate(a, me))

\* shares of a polynomial of degree 1 at least were returned to a participant
\* with two peers at least, and they are not all the same
C19_Witness ==
  /\ Read1 /\ IsOk(result[me].ret)
  /\ params[me].t >= 2
  /\ Unwrap(rng[me]).coefficients[2] # 0
  /\ \E l, k \in DOMAIN Value(result[me].ret) :
       Value(result[me].ret)[l] # Value(result[me].ret)[k]
  /\ IsSome(secret[me])

\* the named slots of p's machine are empty
Consumed1(p) == ~IsSome(coefficients[p]) /\ ~IsSome(our_commitments[p])
Consumed2(p) == ~IsSome(secret[p]) /\ ~IsSome(commitments[p])

\* this step is a call of op on p's machine in the state op requires
Ran(p, op) == Called(p) /\ result'[p].op = op /\ state[p] = Required(op)

RECURSIVE Horner(_, _, _)
Horner(a, x, k) ==
  IF k = Len(a) - 1 THEN a[Len(a)]
  ELSE FAdd(FMul(Horner(a, x, k + 1), x), a[k + 1])

\* C21: for every coefficient vector a_0 .. a_{t-1}, t >= 1, and every index
\* l in 1 .. n, polynomial(coefficients, l) is the sum of a_j * l^j in the
\* scalar field, which is also what the Horner recurrence share = a_{t-1},
\* share = share * l + a_j for j = t-2 down to 0 gives (a_0 when t = 1)
C21_PolynomialIsHorner ==
  (IsSome(evaluation) /\ IsSome(Unwrap(evaluation).share)) =>
    LET a == Unwrap(evaluation).coefficients
        x == FFrom(Unwrap(evaluation).l)
        share == Unwrap(Unwrap(evaluation).share)
    IN  /\ share = Evaluate(a, x)
        /\ share = Horner(a, x, 0)
        /\ Len(a) = 1 => share = a[1]

\* polynomial returned for three coefficients, none of them zero, at l = 2,
\* and the share is not a_0
C21_Witness ==
  /\ IsSome(evaluation)
  /\ IsSome(Unwrap(evaluation).share)
  /\ Len(Unwrap(evaluation).coefficients) = 3
  /\ \A j \in 1 .. 3 : Unwrap(evaluation).coefficients[j] # 0
  /\ Unwrap(evaluation).coefficients[1] # Unwrap(evaluation).coefficients[3]
  /\ Unwrap(evaluation).l = 2
  /\ Unwrap(Unwrap(evaluation).share) # Unwrap(evaluation).coefficients[1]

\* C22: a generate_secret_shares called in state GeneratedCoefficients that
\* returns an error leaves the state GeneratedCoefficients and the
\* coefficients and our_commitments slots empty; a complete called in state
\* GeneratedSecretShares that returns an error leaves the state
\* GeneratedSecretShares and the secret and commitments slots empty.
C22_FailedCallEmptiesSlots ==
  [][\A p \in Participants :
       /\ (Ran(p, "generate_secret_shares") /\ IsErr(result'[p].ret))
            => (state'[p] = "GeneratedCoefficients" /\ Consumed1(p)')
       /\ (Ran(p, "complete") /\ IsErr(result'[p].ret))
            => (state'[p] = "GeneratedSecretShares" /\ Consumed2(p)')]_vars

\* a machine in state GeneratedCoefficients whose generate_secret_shares
\* returned an error: its coefficients and our_commitments are gone
C22_SharesFailed ==
  /\ me # 0
  /\ state[me] = "GeneratedCoefficients"
  /\ result[me].op = "generate_secret_shares"
  /\ IsErr(result[me].ret)
  /\ result[me].ret.err # "InvalidKeyGenTransition"
  /\ Consumed1(me)

\* a machine in state GeneratedSecretShares whose complete returned an
\* error: its secret and commitments are gone
C22_Witness ==
  /\ me # 0
  /\ state[me] = "GeneratedSecretShares"
  /\ result[me].op = "complete"
  /\ IsErr(result[me].ret)
  /\ result[me].ret.err # "InvalidKeyGenTransition"
  /\ Consumed2(me)

\* every message of the map is long enough for its t commitments and R
WellSized(map) ==
  \A l \in DOMAIN map : Len(map[l]) >= params[me].t * G_len + G_len

\* one of the t commitments of the message is no point; its R is no point or
\* its s no scalar
CommitmentFails(msg) ==
  \E c \in 0 .. (params[me].t - 1) :
    G_from_slice(Slice(msg, c * G_len, (c + 1) * G_len)) = DecodeError
ProofFails(msg) ==
  \/ G_from_slice(Slice(msg, params[me].t * G_len, params[me].t * G_len + G_len))
       = DecodeError
  \/ F_from_slice(Slice(msg, params[me].t * G_len + G_len, Len(msg))) = DecodeError
NotDecoding(map) ==
  { l \in DOMAIN map : CommitmentFails(map[l]) \/ ProofFails(map[l]) }

\* what generate_secret_shares returned is what verify_r1 returns when the
\* local participant's message is `own`
SameOutcome(own) ==
  LET r == verify_r1(blinding, params[me], context[me], own, Unwrap(delivered.r1))
  IN  IF IsOk(r) THEN IsOk(result[me].ret) ELSE result[me].ret = r

\* C23: when a round-1 message of a peer has an undecodable commitment, R or s,
\* verify_r1 returns the error of the lowest such peer l, InvalidCommitment(l)
\* if a commitment of its message is undecodable and
\* InvalidProofOfKnowledge(l) otherwise, whatever the proofs of the peers
\* below l; the local participant's commitments are parsed in their turn and
\* its proof is never read.
C23_DecodingFirst ==
  (Read1 /\ ~BadKeys(Unwrap(delivered.r1)) /\ WellSized(Unwrap(delivered.r1)))
    => LET map == Unwrap(delivered.r1)
           own == Unwrap(broadcast[me])
           t == params[me].t
       IN  /\ NotDecoding(map) # {}
                => LET l == Min(NotDecoding(map))
                   IN  result[me].ret =
                         Err(IF CommitmentFails(map[l]) THEN "InvalidCommitment"
                             ELSE "InvalidProofOfKnowledge", l)
           /\ SameOutcome(own)
           /\ SameOutcome([own EXCEPT ![t + 1] = 0])
           /\ SameOutcome([own EXCEPT ![t + 2] = Q])
           /\ SameOutcome(Slice(own, 0, t * G_len))
           /\ verify_r1(blinding, params[me], context[me], [own EXCEPT ![1] = 0], map)
                = IF \E l \in NotDecoding(map) : l < me THEN result[me].ret
                  ELSE Err("InvalidCommitment", me)

\* the message of a peer decodes and its proof fails, a commitment of the
\* message of a higher peer is undecodable, and the error names the higher one
C23_Witness ==
  /\ Read1
  /\ ~BadKeys(Unwrap(delivered.r1))
  /\ WellSized(Unwrap(delivered.r1))
  /\ \E lo \in Peers(me) : \E hi \in Peers(me) :
       /\ lo < hi
       /\ NotDecoding(Unwrap(delivered.r1)) = {hi}
       /\ lo \in ProofsFailing([l \in Peers(me) |->
                                 IF l = hi THEN Honest1[l] ELSE Unwrap(delivered.r1)[l]])
       /\ result[me].ret = Err("InvalidCommitment", hi)

\* every spec in the queue is saved in the database
C24_SavedBeforeQueued ==
  \A j \in DOMAIN NEW_TRIBUTARIES :
    \E k \in DOMAIN db : db[k] = NEW_TRIBUTARIES[j]

\* no spec was passed to add_tributary more than once
C24_AddedAtMostOnce ==
  \A spec \in DOMAIN added : added[spec].reload + added[spec].queue <= 1

\* C24: under any interleaving of the substrate task, the reload and the
\* tributary task, every spec is saved to the database before it is queued,
\* and no spec is passed to add_tributary once by the reload and again from
\* the queue.
C24_RegisteredOnce == C24_SavedBeforeQueued /\ C24_AddedAtMostOnce

====
